---- MODULE Spec2Model ----
(***************************************************************************)
(* Document ingestion pipeline of the orchestrator: ProcessDirectory,      *)
(* processFile, chunkText (internal/orchestrator/workflow.go), together    *)
(* with the Pinecone adapter (UpsertVectors, QueryVectors,                 *)
(* CheckDocumentExists), the Azure OpenAI adapter's input checks, the      *)
(* vision adapter's AnalyzeImage, the numeric checks of config validate    *)
(* and the compute-hash endpoint of the document-scanner                   *)
(* (utils.ComputeFileHash).                                                *)
(*                                                                         *)
(* Strings are sequences: a text is a sequence of bytes, an error message  *)
(* or a path is a sequence of fragments, so that strings.Contains is a     *)
(* contiguous-subsequence test.  The nil error is the empty sequence.      *)
(***************************************************************************)
EXTENDS Integers, Sequences, FiniteSets, TLC

(* ------------------------------ bounds -------------------------------- *)

\* longest text handed to chunkText in the chunker specification
MaxTextLen == 7
\* largest chunk size tried in the chunker specification
MaxWindow == 4
\* most files below the root directory
MaxFiles == 2
\* most ProcessDirectory runs (service starts) over the same index
MaxRuns == 2
\* longest file content in the pipeline specification
MaxContentLen == 3
\* largest configured chunk_size in the pipeline specification
MaxChunkSize == 3
\* most collaborator calls that go wrong in one behaviour
MaxFaults == 1
\* most upsert batches of a call in the upsert specification
MaxBatches == 2
\* most entries below the root in the directory-walk specification
MaxEntries == 3

(* ------------------------- program constants --------------------------- *)

\* batchSize of UpsertVectors
BatchSize == 100
\* input length after which GenerateSummary truncates
SummaryLimit == 10000
\* image size below which getBasicImageInfo adds a base64 preview
PreviewLimit == 1000
\* number of base64 characters getBasicImageInfo slices off for the preview
PreviewLen == 100

(* --------------------------- state variables --------------------------- *)

VARIABLES
    ctText,      \* chunker specification: the text argument
    ctSize,      \* chunker specification: the chunkSize argument
    ctOverlap,   \* chunker specification: the overlap argument
    ctChunks,    \* chunker specification: the returned slice
    ctDone,      \* chunker specification: chunkText has returned
    ctStart,     \* chunk-loop specification: the local variable start
    ctPhase      \* chunk-loop specification: where configuration and
                 \* chunking stand

VARIABLES
    tree,         \* the regular files below the root, in filepath.Walk order
    config,       \* config.Config: the fields the pipeline reads
    store,        \* the Pinecone index: vector id -> vector
    nextUUID,     \* number of document ids uuid.New has handed out
    pc,           \* position of ProcessDirectory: "idle", "loop", "done"
    run,          \* number of ProcessDirectory calls started so far
    files,        \* ProcessDirectory: the slice returned by scanDirectory
    idx,          \* ProcessDirectory: 1-based position of the file loop
    counters,     \* ProcessDirectory: successCount, skipCount, errorCount
    result,       \* ProcessDirectory: [returned, err] of the current run
    trace,        \* this run's processFile calls: file, inputs, calls, error
    prevTrace,    \* the trace of the previous run
    store0,       \* the index as it was when the current run started
    faults,       \* number of collaborator calls that have failed so far
    scanErr,      \* ProcessDirectory: the error scanDirectory returned
    cancelled     \* the context handed to ProcessDirectory is done

VARIABLES
    upStore,     \* upsert specification: the index before the call
    upVectors,   \* upsert specification: the vectors argument
    upFail,      \* upsert specification: the batch whose request fails
    upResult,    \* upsert specification: what UpsertVectors left and returned
    upCounters,  \* upsert specification: the counters after the file
    upDone,      \* upsert specification: the call has returned
    upIndex,     \* upsert specification: the index as it is now
    upRuns,      \* upsert specification: later runs that came to the file
    upLater      \* upsert specification: what the latest such run did

VARIABLES
    hashResp     \* document-scanner: the latest answer of its compute-hash
                 \* endpoint

hashVars == <<hashResp>>

ctVars == <<ctText, ctSize, ctOverlap, ctChunks, ctDone, ctStart, ctPhase>>

upVars == <<upStore, upVectors, upFail, upResult, upCounters, upDone,
           upIndex, upRuns, upLater>>

pipeVars == <<tree, config, store, nextUUID, pc, run, files, idx, counters,
              result, trace, prevTrace, store0, faults, scanErr, cancelled>>

vars == <<ctText, ctSize, ctOverlap, ctChunks, ctDone, ctStart, ctPhase,
          upStore, upVectors, upFail, upResult, upCounters, upDone,
          upIndex, upRuns, upLater,
          tree, config, store, nextUUID, pc, run, files, idx, counters,
          result, trace, prevTrace, store0, faults, scanErr, cancelled,
          hashResp>>

(* ------------------------------ helpers -------------------------------- *)

Min(a, b) == IF a < b THEN a ELSE b

\* ceil(a / b) for a >= 0, b > 0
CeilDiv(a, b) == (a + b - 1) \div b

\* the text of length L whose i-th byte is i (all positions distinguishable)
Text(L) == [i \in 1..L |-> i]

\* the two byte values used for texts with repeated characters
Alphabet == {0, 1}

(* --------------------------- strings, errors --------------------------- *)

\* the nil error
NoErr == <<>>

\* fmt.Errorf(prefix + "%w", err): the message of err after the prefix
Errorf(prefix, err) == <<prefix>> \o err

\* the fragment a occurs inside the fragment b
Within(a, b) ==
    \/ a = b
    \/ <<a, b>> \in {<<"already indexed", ".already indexed">>}

\* strings.Contains on fragment sequences
Contains(s, sub) ==
    \/ \E i \in 0..(Len(s) - Len(sub)) : SubSeq(s, i + 1, i + Len(sub)) = sub
    \/ Len(sub) = 1 /\ \E i \in 1..Len(s) : Within(sub[1], s[i])

\* filepath.Ext: the last fragment of a name, which starts at its final dot
Ext(name) == name[Len(name)]

\* the root directory handed to ProcessDirectory
RootDir == <<"data/">>

RECURSIVE JoinDirs(_)
\* the names of the enclosing directories, each followed by the separator
JoinDirs(dirs) ==
    IF dirs = <<>> THEN <<>> ELSE Head(dirs) \o <<"/">> \o JoinDirs(Tail(dirs))

\* the path filepath.Walk reports for an entry below the root
PathOf(f) == RootDir \o JoinDirs(f.dir) \o f.name

(* ----------------------------- the hasher ------------------------------ *)

\* calculateFileHash with the path mixed into the digest
calculateFileHashOfPath(f, readOK) ==
    IF ~readOK
    THEN [hash |-> <<>>,
          err  |-> <<"open ">> \o PathOf(f) \o <<": permission denied">>]
    ELSE [hash |-> <<"sha256:", PathOf(f), f.bytes>>, err |-> NoErr]

\* calculateFileHash: "sha256:" followed by the digest of the file's bytes;
\* the digest of SHA-256 is taken as collision free, so it is the byte
\* sequence itself; os.Open or io.Copy failing gives the error
calculateFileHash(f, readOK) ==
    IF ~readOK
    THEN [hash |-> <<>>,
          err  |-> <<"open ">> \o PathOf(f) \o <<": permission denied">>]
    ELSE [hash |-> <<"sha256:", f.bytes>>, err |-> NoErr]

\* utils.ComputeFileHash: the hex encoding of the SHA-256 digest of the
\* file's bytes, the digest taken as collision free as in
\* calculateFileHash; os.Open or io.Copy failing gives a wrapped error
ComputeFileHash(f, readOK) ==
    IF ~readOK
    THEN [hash |-> <<>>,
          err  |-> <<"failed to open file: ", "open ">> \o PathOf(f)
                   \o <<": permission denied">>]
    ELSE [hash |-> <<f.bytes>>, err |-> NoErr]

\* the compute-hash endpoint has not answered yet
NoResponse == [status |-> 0, file_path |-> <<>>, hash |-> <<>>, error |-> <<>>]

(* -------------------------- Pinecone adapter --------------------------- *)

\* MatchingIds finding only documents whose last chunk is in the index
MatchingIdsOfLastChunk(st, fileHash) ==
    {id \in DOMAIN st :
        /\ st[id].metadata.file_hash = fileHash
        /\ st[id].metadata.chunk_index = st[id].metadata.chunk_total - 1}

\* the vectors of the index whose metadata matches the file_hash filter
MatchingIds(st, fileHash) ==
    {id \in DOMAIN st : st[id].metadata.file_hash = fileHash}

\* QueryVectors looking into a namespace nothing was written to
QueryVectorsOtherNamespace(st, topK, fileHash, queryOK) ==
    IF ~queryOK
    THEN [matches |-> {}, err |-> <<"API error (status 500)">>]
    ELSE [matches |-> {}, err |-> NoErr]

\* QueryVectors with a file_hash $eq filter: at most topK matches, or the
\* error of a failed request
QueryVectors(st, topK, fileHash, queryOK) ==
    IF ~queryOK
    THEN [matches |-> {}, err |-> <<"API error (status 500)">>]
    ELSE LET ids == MatchingIds(st, fileHash)
         IN  [matches |-> IF Cardinality(ids) <= topK
                          THEN ids
                          ELSE CHOOSE m \in SUBSET ids : Cardinality(m) = topK,
              err     |-> NoErr]

\* CheckDocumentExists that passes the query error on to its caller
CheckDocumentExistsStrict(st, fileHash, queryOK) ==
    LET q == QueryVectors(st, 1, fileHash, queryOK)
    IN  IF q.err # NoErr
        THEN [exists |-> FALSE, err |-> q.err]
        ELSE [exists |-> Cardinality(q.matches) > 0, err |-> NoErr]

\* CheckDocumentExists that never finds a document
CheckDocumentExistsNever(st, fileHash, queryOK) ==
    [exists |-> FALSE, err |-> NoErr]

\* CheckDocumentExists: a failed query is answered (false, nil)
CheckDocumentExists(st, fileHash, queryOK) ==
    LET q == QueryVectors(st, 1, fileHash, queryOK)
    IN  IF q.err # NoErr
        THEN [exists |-> FALSE, err |-> NoErr]
        ELSE [exists |-> Cardinality(q.matches) > 0, err |-> NoErr]

\* upsertBatch: the index after one write request; records are keyed by id
upsertBatch(st, batch, ok) ==
    IF ~ok
    THEN [store |-> st, err |-> <<"API error (status 500)">>]
    ELSE LET new == {batch[k].id : k \in 1..Len(batch)}
         IN  [store |-> [id \in DOMAIN st \cup new |->
                            IF id \in new
                            THEN LET k == CHOOSE j \in 1..Len(batch) :
                                       /\ batch[j].id = id
                                       /\ \A m \in (j + 1)..Len(batch) :
                                              batch[m].id # id
                                 IN  batch[k]
                            ELSE st[id]],
              err   |-> NoErr]

RECURSIVE upsertLoopRollback(_, _, _, _, _)
\* the batch loop taking back the batches it wrote when a later one fails
upsertLoopRollback(st, vectors, i, failBatch, written) ==
    IF i < Len(vectors)
    THEN LET end   == IF i + BatchSize > Len(vectors)
                      THEN Len(vectors) ELSE i + BatchSize
             batch == SubSeq(vectors, i + 1, end)
             r     == upsertBatch(st, batch, failBatch # (i \div BatchSize) + 1)
             gone  == {vectors[k].id : k \in 1..i}
         IN  IF r.err # NoErr
             THEN [store |-> [id \in DOMAIN st \ gone |-> st[id]],
                   written |-> written,
                   err |-> Errorf("failed to upsert batch: ", r.err)]
             ELSE upsertLoopRollback(r.store, vectors, i + BatchSize,
                                     failBatch, Append(written, batch))
    ELSE [store |-> st, written |-> written, err |-> NoErr]

RECURSIVE upsertLoopSkipFailed(_, _, _, _, _)
\* the batch loop going on to the next batch after a failed one
upsertLoopSkipFailed(st, vectors, i, failBatch, written) ==
    IF i < Len(vectors)
    THEN LET end   == IF i + BatchSize > Len(vectors)
                      THEN Len(vectors) ELSE i + BatchSize
             batch == SubSeq(vectors, i + 1, end)
             r     == upsertBatch(st, batch, failBatch # (i \div BatchSize) + 1)
         IN  IF r.err # NoErr
             THEN LET rest == upsertLoopSkipFailed(st, vectors, i + BatchSize,
                                                   failBatch, written)
                  IN  [store |-> rest.store, written |-> rest.written,
                       err |-> Errorf("failed to upsert batch: ", r.err)]
             ELSE upsertLoopSkipFailed(r.store, vectors, i + BatchSize,
                                       failBatch, Append(written, batch))
    ELSE [store |-> st, written |-> written, err |-> NoErr]

RECURSIVE upsertLoop(_, _, _, _, _)
\* the batch loop of UpsertVectors from 0-based offset i; batch number
\* failBatch (1-based, 0 for none) is the one whose request fails
upsertLoop(st, vectors, i, failBatch, written) ==
    IF i < Len(vectors)
    THEN LET end   == IF i + BatchSize > Len(vectors)
                      THEN Len(vectors) ELSE i + BatchSize
             batch == SubSeq(vectors, i + 1, end)
             r     == upsertBatch(st, batch, failBatch # (i \div BatchSize) + 1)
         IN  IF r.err # NoErr
             THEN [store |-> st, written |-> written,
                   err |-> Errorf("failed to upsert batch: ", r.err)]
             ELSE upsertLoop(r.store, vectors, i + BatchSize, failBatch,
                             Append(written, batch))
    ELSE [store |-> st, written |-> written, err |-> NoErr]

\* UpsertVectors: nothing for an empty slice, else batches of BatchSize
UpsertVectors(st, vectors, failBatch) ==
    IF Len(vectors) = 0
    THEN [store |-> st, written |-> <<>>, err |-> NoErr]
    ELSE upsertLoop(st, vectors, 0, failBatch, <<>>)

(* ------------------------ Azure OpenAI adapter ------------------------- *)

\* GenerateEmbedding: empty text is rejected before any request; a
\* successful request yields the n values of the response, whatever n is
GenerateEmbedding(text, ok, n) ==
    IF text = <<>>
    THEN [values |-> <<>>, err |-> <<"text cannot be empty">>]
    ELSE IF ~ok
    THEN [values |-> <<>>, err |-> <<"API error (status 500)">>]
    ELSE [values |-> [i \in 1..n |-> 0], err |-> NoErr]

\* GenerateSummary: empty text is rejected, long text is truncated, then the
\* chat completion either answers or fails
GenerateSummary(text, ok) ==
    IF text = <<>>
    THEN [summary |-> "", err |-> <<"text cannot be empty">>]
    ELSE LET sent == IF Len(text) > SummaryLimit
                     THEN SubSeq(text, 1, SummaryLimit) \o <<"...">>
                     ELSE text
         IN  IF ~ok
             THEN [summary |-> "", err |-> <<"API error (status 500)">>]
             ELSE [summary |-> "generated summary", err |-> NoErr]

(* ------------------------- Google Vision adapter ----------------------- *)

\* strings.ToLower on the extensions that occur
ToLower(ext) ==
    CASE ext = ".PNG" -> ".png"
      [] ext = ".JPG" -> ".jpg"
      [] OTHER        -> ext

\* the description getBasicImageInfo returns for an image
VisualDescription == <<86>>

\* the description parseSVG returns for a vector image
SvgDescription == <<83>>

\* len(base64.StdEncoding.EncodeToString(data)) for n bytes of data
EncodedLen(n) == 4 * CeilDiv(n, 3)

\* getBasicImageInfo: name, type and size of the image; for an image of
\* fewer than PreviewLimit bytes the first PreviewLen characters of its
\* base64 encoding are appended, a slice expression that panics when the
\* encoding is shorter than that
getBasicImageInfo(f) ==
    IF Len(f.bytes) < PreviewLimit /\ EncodedLen(Len(f.bytes)) < PreviewLen
    THEN [text |-> <<>>, err |-> NoErr, panicked |-> TRUE]
    ELSE [text |-> VisualDescription, err |-> NoErr, panicked |-> FALSE]

\* AnalyzeImage: ("", error) when the image is unreadable, the text of a
\* vector image, the basic description of any other image
AnalyzeImage(f, ok) ==
    IF ~ok
    THEN [text |-> <<>>, err |-> <<"failed to read image: ">>,
          panicked |-> FALSE]
    ELSE IF ToLower(Ext(f.name)) = ".svg"
    THEN [text |-> SvgDescription, err |-> NoErr, panicked |-> FALSE]
    ELSE getBasicImageInfo(f)

(* ------------------------------ chunkText ------------------------------ *)

RECURSIVE chunkLoopNoOverlap(_, _, _, _, _)
\* chunkLoop with the stride taken as chunkSize (the overlap is forgotten)
chunkLoopNoOverlap(text, chunkSize, overlap, start, chunks) ==
    IF start < Len(text)
    THEN LET end == IF start + chunkSize > Len(text)
                    THEN Len(text) ELSE start + chunkSize
         IN  chunkLoopNoOverlap(text, chunkSize, overlap, start + chunkSize,
                                Append(chunks, SubSeq(text, start + 1, end)))
    ELSE chunks

RECURSIVE chunkLoopInclusive(_, _, _, _, _)
\* chunkLoop going on while start <= len(text)
chunkLoopInclusive(text, chunkSize, overlap, start, chunks) ==
    IF start <= Len(text)
    THEN LET end == IF start + chunkSize > Len(text)
                    THEN Len(text) ELSE start + chunkSize
         IN  chunkLoopInclusive(text, chunkSize, overlap,
                                start + chunkSize - overlap,
                                Append(chunks, SubSeq(text, start + 1, end)))
    ELSE chunks

RECURSIVE chunkLoop(_, _, _, _, _)
\* the for loop of chunkText: text[start:end] is SubSeq(text, start+1, end)
chunkLoop(text, chunkSize, overlap, start, chunks) ==
    IF start < Len(text)
    THEN LET end == IF start + chunkSize > Len(text)
                    THEN Len(text) ELSE start + chunkSize
         IN  chunkLoop(text, chunkSize, overlap, start + chunkSize - overlap,
                       Append(chunks, SubSeq(text, start + 1, end)))
    ELSE chunks

\* chunkText splits text into overlapping chunks
chunkText(text, chunkSize, overlap) ==
    IF Len(text) <= chunkSize
    THEN <<text>>
    ELSE chunkLoop(text, chunkSize, overlap, 0, <<>>)

(* ------------------------- content extractors -------------------------- *)

\* the processors in the order NewDocumentProcessor registers them
Processors == <<"text", "image", "document", "spreadsheet", "code">>

\* ProcessorInterface.CanProcess of each variant
CanProcess(p, ext) ==
    CASE p = "text"        -> ext \in {".txt", ".md", ".json", ".yaml", ".csv"}
      [] p = "image"       -> ext \in {".png", ".jpg", ".svg"}
      [] p = "document"    -> ext \in {".pdf", ".docx", ".pptx"}
      [] p = "spreadsheet" -> ext \in {".xlsx", ".csv"}
      [] p = "code"        -> ext \in {".go", ".py", ".js", ".java"}
      [] OTHER             -> FALSE

\* ProcessorInterface.Extract: the text of the file, or an error
Extract(p, f, ok) ==
    IF ok
    THEN [text |-> f.bytes, err |-> NoErr]
    ELSE [text |-> <<>>, err |-> <<"failed to read file">>]

\* a call made to a collaborator: its name, whether it succeeded, its
\* argument and what it returned
Call(fn, ok, arg, ret) == [fn |-> fn, ok |-> ok, arg |-> arg, ret |-> ret]

\* extractContent: Extract of the first processor that accepts the extension
extractContent(f, extractOK) ==
    LET ext  == Ext(f.name)
        able == {k \in 1..Len(Processors) : CanProcess(Processors[k], ext)}
    IN  IF able = {}
        THEN [text  |-> <<>>,
              err   |-> <<"no processor found for file type: ", ext>>,
              calls |-> <<>>]
        ELSE LET k == CHOOSE j \in able : \A m \in able : j <= m
                 r == Extract(Processors[k], f, extractOK)
             IN  [text  |-> r.text,
                  err   |-> r.err,
                  calls |-> <<Call("Extract", r.err = NoErr,
                                   Processors[k], r.text)>>]

\* isImageFile
isImageFile(f) ==
    ToLower(Ext(f.name)) \in {".png", ".jpg", ".jpeg", ".gif", ".bmp", ".svg"}

(* ----------------------------- processFile ----------------------------- *)

\* the number of values the embedding deployment answers with for chunk i:
\* the configured dimension, or one more for a chunk in.embedMisfit names
ResponseLen(in, i) ==
    IF i \in in.embedMisfit THEN config.Dimension + 1 ELSE config.Dimension

\* what processFile hands back: its error, the index it leaves, the
\* collaborator calls it made, whether it drew a document id
Ret(err, st, calls, drewId) ==
    [err |-> err, store |-> st, calls |-> calls, drewId |-> drewId,
     panicked |-> FALSE]

\* processFile does not return: a run-time panic unwinds the goroutine
Panic(st, calls) ==
    [err |-> <<"panic: runtime error: slice bounds out of range">>,
     store |-> st, calls |-> calls, drewId |-> FALSE, panicked |-> TRUE]

\* MakeVector with chunk_total taken as the number of chunks seen so far
MakeVectorRunningTotal(f, fileHash, docID, i, total, chunk, summary, values) ==
    [id       |-> <<docID, "-chunk-", i>>,
     values   |-> values,
     metadata |-> [document_id |-> docID,
                   file_name   |-> f.name,
                   file_path   |-> PathOf(f),
                   file_type   |-> Ext(f.name),
                   file_hash   |-> fileHash,
                   chunk_index |-> i,
                   chunk_total |-> i + 1,
                   content     |-> chunk,
                   summary     |-> summary]]

\* the vector assembled for chunk i (0-based) of a document
MakeVector(f, fileHash, docID, i, total, chunk, summary, values) ==
    [id       |-> <<docID, "-chunk-", i>>,
     values   |-> values,
     metadata |-> [document_id |-> docID,
                   file_name   |-> f.name,
                   file_path   |-> PathOf(f),
                   file_type   |-> Ext(f.name),
                   file_hash   |-> fileHash,
                   chunk_index |-> i,
                   chunk_total |-> total,
                   content     |-> chunk,
                   summary     |-> summary]]

RECURSIVE embedLoopAbort(_, _, _, _, _, _, _, _)
\* the chunk loop leaving at the first failed embedding
embedLoopAbort(f, fileHash, docID, summary, chunks, in, i, acc) ==
    IF i >= Len(chunks)
    THEN acc
    ELSE LET chunk == chunks[i + 1]
             e     == GenerateEmbedding(chunk, i \notin in.embedFail,
                                        ResponseLen(in, i))
             c     == Append(acc.calls,
                             Call("GenerateEmbedding", e.err = NoErr, i, chunk))
         IN  IF e.err # NoErr
             THEN [vectors |-> acc.vectors, calls |-> c]
             ELSE embedLoopAbort(f, fileHash, docID, summary, chunks,
                     in, i + 1,
                     [vectors |-> Append(acc.vectors,
                                     MakeVector(f, fileHash, docID, i,
                                                Len(chunks), chunk, summary,
                                                e.values)),
                      calls   |-> c])

RECURSIVE embedLoopBackward(_, _, _, _, _, _, _, _)
\* the chunk loop taking the chunks from the last to the first
embedLoopBackward(f, fileHash, docID, summary, chunks, in, i, acc) ==
    IF i >= Len(chunks)
    THEN acc
    ELSE LET j     == Len(chunks) - 1 - i
             chunk == chunks[j + 1]
             e     == GenerateEmbedding(chunk, j \notin in.embedFail,
                                        ResponseLen(in, j))
             c     == Append(acc.calls,
                             Call("GenerateEmbedding", e.err = NoErr, j, chunk))
         IN  IF e.err # NoErr
             THEN embedLoopBackward(f, fileHash, docID, summary, chunks, in,
                                    i + 1, [vectors |-> acc.vectors, calls |-> c])
             ELSE embedLoopBackward(f, fileHash, docID, summary, chunks, in,
                     i + 1,
                     [vectors |-> Append(acc.vectors,
                                     MakeVector(f, fileHash, docID, j,
                                                Len(chunks), chunk, summary,
                                                e.values)),
                      calls   |-> c])

RECURSIVE embedLoop(_, _, _, _, _, _, _, _)
\* the chunk loop of processFile from 0-based index i: a chunk whose
\* embedding fails is logged and left out, the loop goes on
embedLoop(f, fileHash, docID, summary, chunks, in, i, acc) ==
    IF i >= Len(chunks)
    THEN acc
    ELSE LET chunk == chunks[i + 1]
             e     == GenerateEmbedding(chunk, i \notin in.embedFail,
                                        ResponseLen(in, i))
             c     == Append(acc.calls,
                             Call("GenerateEmbedding", e.err = NoErr, i, chunk))
         IN  IF e.err # NoErr
             THEN embedLoop(f, fileHash, docID, summary, chunks, in,
                            i + 1, [vectors |-> acc.vectors, calls |-> c])
             ELSE embedLoop(f, fileHash, docID, summary, chunks, in,
                     i + 1,
                     [vectors |-> Append(acc.vectors,
                                     MakeVector(f, fileHash, docID, i,
                                                Len(chunks), chunk, summary,
                                                e.values)),
                      calls   |-> c])

\* the visual content processFile obtains for a file
visualOf(f, visionOK) ==
    IF isImageFile(f) /\ config.VisionClient
    THEN LET v == AnalyzeImage(f, visionOK)
         IN  [text     |-> v.text,
              panicked |-> v.panicked,
              calls    |-> <<Call("AnalyzeImage", v.err = NoErr /\ ~v.panicked,
                                  PathOf(f), v.text)>>]
    ELSE [text |-> <<>>, panicked |-> FALSE, calls |-> <<>>]

\* summaryOf with the summary taken as GenerateSummary returned it
summaryOfRaw(sm) == sm.summary

\* the summary processFile goes on with: the placeholder when
\* GenerateSummary failed
summaryOf(sm) ==
    IF sm.err # NoErr THEN "Summary generation failed" ELSE sm.summary

\* content followed by "\n\n" and the visual content, if there is any
combine(content, visual) ==
    IF visual # <<>> THEN content \o <<10, 10>> \o visual ELSE content

\* processFile from "Analyze image if applicable" to its end: vision,
\* summary, chunking, one embedding per chunk, storage
indexContent(f, fileHash, content, st, docID, in, calls) ==
    LET vis      == visualOf(f, in.visionOK)
        combined == combine(content, vis.text)
        sm       == GenerateSummary(combined, in.summaryOK)
        summary  == summaryOf(sm)
        c1       == calls \o vis.calls
                    \o <<Call("GenerateSummary", sm.err = NoErr,
                              combined, summary)>>
        chunks   == chunkText(combined, config.ChunkSize, config.ChunkOverlap)
        emb      == embedLoop(f, fileHash, docID, summary, chunks,
                              in, 0,
                              [vectors |-> <<>>, calls |-> c1])
    IN  IF vis.panicked
        THEN Panic(st, calls \o vis.calls)
        ELSE IF Len(emb.vectors) > 0
        THEN LET u  == UpsertVectors(st, emb.vectors, in.failBatch)
                 c2 == Append(emb.calls,
                              Call("UpsertVectors", u.err = NoErr,
                                   emb.vectors, u.written))
             IN  IF u.err # NoErr
                 THEN Ret(Errorf("failed to store in Pinecone: ", u.err),
                          u.store, c2, TRUE)
                 ELSE Ret(NoErr, u.store, c2, TRUE)
        ELSE Ret(NoErr, st, emb.calls, TRUE)

\* afterExtract without the test for empty content
afterExtractNoCheck(f, fileHash, content, st, docID, in, calls) ==
    indexContent(f, fileHash, content, st, docID, in, calls)

\* processFile after a successful extraction: empty content ends the file
\* with a warning and a nil error
afterExtract(f, fileHash, content, st, docID, in, calls) ==
    IF content = <<>>
    THEN Ret(NoErr, st, calls, FALSE)
    ELSE indexContent(f, fileHash, content, st, docID, in, calls)

\* processFile: hash, existence check when SkipExistingDocuments is set,
\* extraction, then the rest of the pipeline
processFile(f, st, docID, in) ==
    LET h  == calculateFileHash(f, in.readOK)
        c1 == <<Call("calculateFileHash", h.err = NoErr, PathOf(f), h.hash)>>
    IN  IF h.err # NoErr
        THEN Ret(Errorf("failed to calculate hash: ", h.err), st, c1, FALSE)
        ELSE
        LET q  == IF config.SkipExistingDocuments
                  THEN CheckDocumentExists(st, h.hash, in.queryOK)
                  ELSE [exists |-> FALSE, err |-> NoErr]
            c2 == IF config.SkipExistingDocuments
                  THEN Append(c1, Call("CheckDocumentExists", in.queryOK,
                                       h.hash, q))
                  ELSE c1
        IN  IF config.SkipExistingDocuments /\ q.err = NoErr /\ q.exists
            THEN Ret(<<"file ", "already indexed">>, st, c2, FALSE)
            ELSE
            LET x  == extractContent(f, in.extractOK)
                c3 == c2 \o x.calls
            IN  IF x.err # NoErr
                THEN Ret(Errorf("failed to extract content: ", x.err),
                         st, c3, FALSE)
                ELSE afterExtract(f, h.hash, x.text, st, docID, in, c3)

(* --------------------------- ProcessDirectory -------------------------- *)

\* strings.HasPrefix(name, "."): names that begin with a dot have the dot
\* as their first fragment
HasDotPrefix(name) == name[1] = "."

\* strings.HasPrefix(info.Name(), ".")
IsHidden(e) == HasDotPrefix(e.name)

RECURSIVE walk(_, _, _, _)
\* filepath.Walk over the entries below the root with scanDirectory's
\* callback: an entry that cannot be read ends the walk with its error,
\* directories and hidden names are passed over, any other path is kept
walk(entries, k, errAt, acc) ==
    IF k > Len(entries)
    THEN [files |-> acc, err |-> NoErr]
    ELSE IF errAt = k + 1
    THEN [files |-> acc,
          err   |-> <<"lstat ">> \o PathOf(entries[k])
                    \o <<": permission denied">>]
    ELSE IF entries[k].isDir \/ IsHidden(entries[k])
    THEN walk(entries, k + 1, errAt, acc)
    ELSE walk(entries, k + 1, errAt, Append(acc, entries[k]))

\* scanDirectory: errAt is the position in the walk (1 for the root) of
\* the entry that cannot be read, 0 when every entry can
scanDirectory(entries, errAt) ==
    IF errAt = 1
    THEN [files |-> <<>>,
          err   |-> <<"lstat ">> \o RootDir \o <<": no such file or directory">>]
    ELSE walk(entries, 1, errAt, <<>>)

\* the file loop taken to end one file early
LoopDoneEarly(i, fs) == i >= Len(fs)

\* the file loop of ProcessDirectory has run past the last file
LoopDone(i, fs) == i > Len(fs)

\* strings.Contains(err.Error(), "already indexed") never holding
IsAlreadyIndexedNever(err) == FALSE

\* strings.Contains(err.Error(), "already indexed")
IsAlreadyIndexed(err) == Contains(err, <<"already indexed">>)

\* countFile raising the error counter too when a file is skipped
countFileTwice(err, c) ==
    IF err # NoErr
    THEN IF IsAlreadyIndexed(err)
         THEN [c EXCEPT !.skipCount = @ + 1, !.errorCount = @ + 1]
         ELSE [c EXCEPT !.errorCount = @ + 1]
    ELSE [c EXCEPT !.successCount = @ + 1]

\* the counters after processFile returned err for one file
countFile(err, c) ==
    IF err # NoErr
    THEN IF IsAlreadyIndexed(err)
         THEN [c EXCEPT !.skipCount = @ + 1]
         ELSE [c EXCEPT !.errorCount = @ + 1]
    ELSE [c EXCEPT !.successCount = @ + 1]

\* the counter a file with this error went to
ClassOf(err) ==
    IF err = NoErr THEN "processed"
    ELSE IF IsAlreadyIndexed(err) THEN "skipped" ELSE "errored"

ZeroCounters == [successCount |-> 0, skipCount |-> 0, errorCount |-> 0]

(* ------------------------ pipeline specification ----------------------- *)

\* the file names that can occur below the root, in lexical order
PoolNames == << <<"a", ".txt">>, <<"a_copy", ".txt">>, <<"pic", ".png">> >>

\* the file contents that can occur: the empty file and one of
\* MaxContentLen bytes
Contents == {Text(0), Text(MaxContentLen)}

\* the members of a set of numbers in increasing order
Sorted(S) ==
    CHOOSE q \in [1..Cardinality(S) -> S] :
        \A i, j \in 1..Cardinality(S) : i < j => q[i] < q[j]

\* the directories that can occur: at most MaxFiles regular files
Trees ==
    {[k \in 1..Cardinality(S) |->
         [dir   |-> <<>>,
          name  |-> PoolNames[Sorted(S)[k]],
          isDir |-> FALSE,
          bytes |-> b[Sorted(S)[k]]]] :
       S \in {T \in SUBSET (1..Len(PoolNames)) : Cardinality(T) <= MaxFiles},
       b \in [1..Len(PoolNames) -> Contents]}

\* the chunk_size and chunk_overlap pairs tried: the largest chunk size
\* without overlap, and the next smaller one with the largest overlap
\* validate accepts for it
ChunkSettings ==
    {<<MaxChunkSize, 0>>, <<MaxChunkSize - 1, MaxChunkSize - 2>>}

\* the configurations tried, all of which validate accepts
Configs ==
    {c \in [SkipExistingDocuments : BOOLEAN,
            ChunkSize : {p[1] : p \in ChunkSettings},
            ChunkOverlap : {p[2] : p \in ChunkSettings},
            Dimension : {2},
            VisionClient : BOOLEAN] :
       /\ <<c.ChunkSize, c.ChunkOverlap>> \in ChunkSettings
       /\ c.ChunkSize > 0
       /\ c.ChunkOverlap >= 0
       /\ c.ChunkOverlap < c.ChunkSize}

\* the most chunks processFile can cut a file into
MaxChunksOf(f) ==
    Len(chunkText(combine(f.bytes, visualOf(f, TRUE).text),
                  config.ChunkSize, config.ChunkOverlap))

\* the number of calls of a processFile call that failed
FailedCalls(calls) == Cardinality({k \in 1..Len(calls) : ~calls[k].ok})

\* the number of vectors handed to UpsertVectors whose length is not the
\* configured dimension
Misfits(calls) ==
    LET k == Len(calls)
    IN  IF k = 0 \/ calls[k].fn # "UpsertVectors"
        THEN 0
        ELSE Cardinality({v \in 1..Len(calls[k].arg) :
                             Len(calls[k].arg[v].values) # config.Dimension})

\* the requests of one processFile call that do not take the context and
\* can fail: the file read, the extraction, the image read
LocalPoints == {<<"read", 0>>, <<"extract", 0>>, <<"vision", 0>>}

\* the requests of one processFile call that are made with the context and
\* can fail: the existence query, the summary, the embedding of chunk i,
\* the write of batch b
CtxPoints(f) ==
    {<<"query", 0>>, <<"summary", 0>>}
    \cup {<<"embed", i>> : i \in 0..(MaxChunksOf(f) - 1)}
    \cup {<<"upsert", b>> : b \in 1..CeilDiv(MaxChunksOf(f), BatchSize)}

\* the requests of one processFile call that can go wrong: those that can
\* fail, and the embedding of chunk i answering with a vector of another
\* length
FaultPoints(f) ==
    LocalPoints \cup CtxPoints(f)
    \cup {<<"misfit", i>> : i \in 0..(MaxChunksOf(f) - 1)}

RECURSIVE AtMost(_, _)
\* the subsets of S with at most k members
AtMost(S, k) ==
    IF k <= 0
    THEN {{}}
    ELSE LET smaller == AtMost(S, k - 1)
         IN  smaller \cup {F \cup {x} : F \in smaller, x \in S}

\* the outcomes of the collaborator calls when the requests in F fail
InputOf(F) ==
    [readOK    |-> <<"read", 0>> \notin F,
     queryOK   |-> <<"query", 0>> \notin F,
     extractOK |-> <<"extract", 0>> \notin F,
     visionOK  |-> <<"vision", 0>> \notin F,
     summaryOK |-> <<"summary", 0>> \notin F,
     embedFail |-> {x[2] : x \in {y \in F : y[1] = "embed"}},
     embedMisfit |-> {x[2] : x \in {y \in F : y[1] = "misfit"}},
     failBatch |-> LET bs == {x[2] : x \in {y \in F : y[1] = "upsert"}}
                   IN  IF bs = {} THEN 0
                       ELSE CHOOSE b \in bs : \A c \in bs : b <= c]

\* the outcomes of the collaborator calls of one processFile call: which
\* requests go wrong, within what is left of MaxFaults; once the context is
\* done every request made with it fails
Inputs(f) ==
    IF cancelled
    THEN {InputOf(CtxPoints(f) \cup F) :
             F \in AtMost(LocalPoints, MaxFaults - faults)}
    ELSE {InputOf(F) : F \in AtMost(FaultPoints(f), MaxFaults - faults)}

\* no later run has come to the file of the upsert specification
NoLater ==
    [ran |-> FALSE, queryOK |-> TRUE, allOK |-> TRUE, before |-> <<>>,
     class |-> "processed"]

\* the upsert specification at rest
UpIdle ==
    /\ upStore = <<>> /\ upVectors = <<>> /\ upFail = 0
    /\ upResult = [store |-> <<>>, written |-> <<>>, err |-> NoErr]
    /\ upCounters = ZeroCounters
    /\ upDone = FALSE
    /\ upIndex = <<>>
    /\ upRuns = 0
    /\ upLater = NoLater

\* the state after NewDocumentProcessor, over one of the directories and
\* with one of the configurations given
InitWith(trees, configs) ==
    /\ tree \in trees
    /\ config \in configs
    /\ store = <<>>
    /\ nextUUID = 0
    /\ pc = "idle"
    /\ run = 0
    /\ files = <<>>
    /\ idx = 1
    /\ counters = ZeroCounters
    /\ result = [returned |-> FALSE, err |-> NoErr]
    /\ trace = <<>>
    /\ prevTrace = <<>>
    /\ store0 = <<>>
    /\ faults = 0
    /\ scanErr = NoErr
    /\ cancelled = FALSE
    /\ hashResp = NoResponse
    /\ ctText = <<>> /\ ctSize = 1 /\ ctOverlap = 0
    /\ ctChunks = <<>> /\ ctDone = FALSE
    /\ ctStart = 0 /\ ctPhase = "idle"
    /\ UpIdle

Init == InitWith(Trees, Configs)

\* ProcessDirectory is called: the scan, and the return when it fails
callProcessDirectory ==
    /\ \E errAt \in 0..(Len(tree) + 1) :
          LET sc == scanDirectory(tree, errAt)
          IN  /\ scanErr' = sc.err
              /\ files' = IF sc.err # NoErr THEN <<>> ELSE sc.files
              /\ pc' = IF sc.err # NoErr THEN "done" ELSE "loop"
              /\ result' = IF sc.err # NoErr
                           THEN [returned |-> TRUE,
                                 err |-> Errorf("failed to scan directory: ",
                                                sc.err)]
                           ELSE [returned |-> FALSE, err |-> NoErr]
    /\ run' = run + 1
    /\ idx' = 1
    /\ counters' = ZeroCounters
    /\ prevTrace' = trace
    /\ trace' = <<>>
    /\ store0' = store
    /\ UNCHANGED <<tree, config, store, nextUUID, faults, cancelled>>
    /\ UNCHANGED <<ctVars, upVars, hashVars>>

\* the service starts and its indexing goroutine calls ProcessDirectory
StartRun ==
    /\ pc = "idle"
    /\ callProcessDirectory

\* the service is started again over the same directory and index
Restart ==
    /\ pc = "done"
    /\ run < MaxRuns
    /\ callProcessDirectory

\* one iteration of the file loop: processFile and the counter it feeds;
\* a panic inside processFile is recovered nowhere and ends the process
ProcessNextFile ==
    /\ pc = "loop"
    /\ ~LoopDone(idx, files)
    /\ \E in \in Inputs(files[idx]) :
          LET r == processFile(files[idx], store, nextUUID + 1, in)
          IN  /\ store' = r.store
              /\ nextUUID' = IF r.drewId THEN nextUUID + 1 ELSE nextUUID
              /\ counters' = IF r.panicked THEN counters
                             ELSE countFile(r.err, counters)
              /\ trace' = Append(trace, [file  |-> files[idx],
                                         err   |-> r.err,
                                         calls |-> r.calls])
              /\ faults' = IF cancelled THEN faults
                           ELSE faults + FailedCalls(r.calls)
                                       + Misfits(r.calls)
              /\ pc' = IF r.panicked THEN "crashed" ELSE pc
              /\ idx' = IF r.panicked THEN idx ELSE idx + 1
    /\ UNCHANGED <<tree, config, run, files, result, prevTrace, store0,
                   scanErr, cancelled>>
    /\ UNCHANGED <<ctVars, upVars, hashVars>>

\* the caller's context is done (timeout or shutdown) while the file loop
\* is running
Cancel ==
    /\ pc = "loop"
    /\ ~cancelled
    /\ cancelled' = TRUE
    /\ UNCHANGED <<tree, config, store, nextUUID, pc, run, files, idx,
                   counters, result, trace, prevTrace, store0, faults,
                   scanErr>>
    /\ UNCHANGED <<ctVars, upVars, hashVars>>

\* the loop is over: the totals are logged and nil is returned
FinishRun ==
    /\ pc = "loop"
    /\ LoopDone(idx, files)
    /\ pc' = "done"
    /\ result' = [returned |-> TRUE, err |-> NoErr]
    /\ UNCHANGED <<tree, config, store, nextUUID, run, files, idx, counters,
                   trace, prevTrace, store0, faults, scanErr, cancelled>>
    /\ UNCHANGED <<ctVars, upVars, hashVars>>

Next == StartRun \/ ProcessNextFile \/ FinishRun

\* one start of the service over any of the directories
Spec == Init /\ [][Next]_vars

\* repeated starts of the service over a directory of fewer than MaxFiles files
InitRerun == Init /\ Len(tree) <= MaxFiles - 1

NextRerun == StartRun \/ Restart \/ ProcessNextFile \/ FinishRun

SpecRerun == InitRerun /\ [][NextRerun]_vars

(* -------------------- directory-walk specification --------------------- *)

\* an entry below the root: the names of its enclosing directories, its
\* own name, whether it is a directory, and the bytes of a regular file
Entry(dir, name, isDir) ==
    [dir   |-> dir,
     name  |-> name,
     isDir |-> isDir,
     bytes |-> IF isDir THEN <<>> ELSE Text(MaxContentLen)]

\* the entries that can occur below the root, in the lexical order of
\* filepath.Walk: hidden files and directories, a sub-directory, files
\* inside them, a file no processor accepts, files whose name or extension
\* holds the words "already indexed", a vector image
TreeEntries ==
    << Entry(<<>>, <<".", "env">>, FALSE),
       Entry(<<>>, <<".", "git">>, TRUE),
       Entry(<< <<".", "git">> >>, <<"config", ".txt">>, FALSE),
       Entry(<<>>, <<"a", ".txt">>, FALSE),
       Entry(<<>>, <<"already indexed", ".txt">>, FALSE),
       Entry(<<>>, <<"notes", ".already indexed">>, FALSE),
       Entry(<<>>, <<"notes", ".xyz">>, FALSE),
       Entry(<<>>, <<"pic", ".svg">>, FALSE),
       Entry(<<>>, <<"sub">>, TRUE),
       Entry(<< <<"sub">> >>, <<"b", ".txt">>, FALSE) >>

\* the directories that can occur: at most MaxEntries entries, an entry of
\* a sub-directory only together with that sub-directory
WalkTrees ==
    {[k \in 1..Cardinality(S) |-> TreeEntries[Sorted(S)[k]]] :
       S \in {T \in SUBSET (1..Len(TreeEntries)) :
                 /\ Cardinality(T) <= MaxEntries
                 /\ \A i \in T :
                        TreeEntries[i].dir # <<>> =>
                            \E j \in T :
                                /\ TreeEntries[j].isDir
                                /\ TreeEntries[i].dir = <<TreeEntries[j].name>>}}

\* the configurations of the directory-walk specification: the largest
\* chunk size without overlap
TreeConfigs == {c \in Configs : c.ChunkSize = MaxChunkSize}

InitTree == InitWith(WalkTrees, TreeConfigs)

\* one start of the service over a directory with sub-directories, hidden
\* entries and files of unusual names
SpecTree == InitTree /\ [][Next]_vars

(* --------------------- cancellation specification ---------------------- *)

NextCancel == StartRun \/ ProcessNextFile \/ FinishRun \/ Cancel

\* one start of the service with a context that can be done at any point
\* of the file loop
SpecCancel == Init /\ [][NextCancel]_vars

(* ------------------------ upsert specification ------------------------- *)

\* the file whose vectors are written in the upsert specification
UpFile ==
    [dir |-> <<>>, name |-> <<"a", ".txt">>, isDir |-> FALSE,
     bytes |-> Text(MaxContentLen)]

\* the n vectors processFile assembles for document docID, all embedded
VectorsOf(docID, n, summary) ==
    [k \in 1..n |->
        MakeVector(UpFile, calculateFileHash(UpFile, TRUE).hash, docID,
                   k - 1, n, <<k>>, summary, <<0, 0>>)]

\* the numbers of vectors tried: around every multiple of BatchSize up to
\* MaxBatches batches
VectorCounts ==
    {n \in {b * BatchSize + d : b \in 0..MaxBatches, d \in {-1, 0, 1}} :
        n >= 0}

\* the indexes tried: empty, holding a vector of another document, holding
\* an older vector under the first identifier of this document
SeedStores ==
    {<<>>} \cup
    {[id \in {VectorsOf(d, 1, "older summary")[1].id} |->
         VectorsOf(d, 1, "older summary")[1]] : d \in {0, 1}}

InitUpsert ==
    /\ upStore \in SeedStores
    /\ \E n \in VectorCounts : upVectors = VectorsOf(1, n, "generated summary")
    /\ upFail \in 0..(MaxBatches + 1)
    /\ upResult = [store |-> <<>>, written |-> <<>>, err |-> NoErr]
    /\ upCounters = ZeroCounters
    /\ upDone = FALSE
    /\ upIndex = upStore
    /\ upRuns = 0
    /\ upLater = NoLater
    /\ tree = <<>>
    /\ config \in {c \in Configs : c.ChunkSize = MaxChunkSize /\ ~c.VisionClient}
    /\ store = <<>> /\ nextUUID = 0 /\ pc = "idle" /\ run = 0
    /\ files = <<>> /\ idx = 1 /\ counters = ZeroCounters
    /\ result = [returned |-> FALSE, err |-> NoErr]
    /\ trace = <<>> /\ prevTrace = <<>> /\ store0 = <<>> /\ faults = 0
    /\ scanErr = NoErr
    /\ cancelled = FALSE
    /\ hashResp = NoResponse
    /\ ctText = <<>> /\ ctSize = 1 /\ ctOverlap = 0
    /\ ctChunks = <<>> /\ ctDone = FALSE
    /\ ctStart = 0 /\ ctPhase = "idle"

\* "Store in Pinecone" of processFile and the counter ProcessDirectory
\* raises for the file
StoreVectors ==
    /\ ~upDone
    /\ LET u   == IF Len(upVectors) > 0
                  THEN UpsertVectors(upStore, upVectors, upFail)
                  ELSE [store |-> upStore, written |-> <<>>, err |-> NoErr]
           err == IF u.err # NoErr
                  THEN Errorf("failed to store in Pinecone: ", u.err)
                  ELSE NoErr
       IN  /\ upResult' = u
           /\ upIndex' = u.store
           /\ upCounters' = countFile(err, upCounters)
    /\ upDone' = TRUE
    /\ UNCHANGED <<upStore, upVectors, upFail, upRuns, upLater>>
    /\ UNCHANGED <<pipeVars, ctVars, hashVars>>

\* a later ProcessDirectory run comes to the same, unchanged file:
\* processFile hashes it, asks the index for its hash when
\* SkipExistingDocuments is set, and either returns "file already indexed"
\* or assembles the vectors again under a new document id and stores
\* them, which goes through or fails at the first request
ProcessAgain ==
    /\ upDone
    /\ upRuns < MaxRuns - 1
    /\ \E queryOK \in BOOLEAN, failBatch \in 0..1 :
          LET h   == calculateFileHash(UpFile, TRUE)
              q   == IF config.SkipExistingDocuments
                     THEN CheckDocumentExists(upIndex, h.hash, queryOK)
                     ELSE [exists |-> FALSE, err |-> NoErr]
              vs  == VectorsOf(2 + upRuns, Len(upVectors), "generated summary")
              u   == IF Len(vs) > 0
                     THEN UpsertVectors(upIndex, vs, failBatch)
                     ELSE [store |-> upIndex, written |-> <<>>, err |-> NoErr]
              err == IF config.SkipExistingDocuments /\ q.err = NoErr
                        /\ q.exists
                     THEN <<"file ", "already indexed">>
                     ELSE IF u.err # NoErr
                     THEN Errorf("failed to store in Pinecone: ", u.err)
                     ELSE NoErr
          IN  /\ upIndex' = IF config.SkipExistingDocuments /\ q.err = NoErr
                               /\ q.exists
                            THEN upIndex ELSE u.store
              /\ upLater' = [ran     |-> TRUE,
                             queryOK |-> queryOK,
                             allOK   |-> upLater.allOK /\ queryOK,
                             before  |-> upIndex,
                             class   |-> ClassOf(err)]
    /\ upRuns' = upRuns + 1
    /\ UNCHANGED <<upStore, upVectors, upFail, upResult, upCounters, upDone>>
    /\ UNCHANGED <<pipeVars, ctVars, hashVars>>

NextUpsert == StoreVectors \/ ProcessAgain

SpecUpsert == InitUpsert /\ [][NextUpsert]_vars

(* ----------------------- chunker specification ------------------------- *)

\* the texts chunkText is applied to: every text over Alphabet up to
\* MaxTextLen and the all-distinct text of each length
ChunkTexts ==
    UNION {[1..L -> Alphabet] : L \in 0..MaxTextLen}
    \cup {Text(L) : L \in 0..MaxTextLen}

\* the (chunkSize, overlap) pairs accepted by config validation, up to
\* MaxWindow
ChunkParams ==
    {<<s, o>> \in (1..MaxWindow) \X (0..MaxWindow) : o < s}

\* the documented boundary example: 2500 bytes, chunkSize 1000, overlap 200
ExampleCase == <<[i \in 1..2500 |-> i % 256], 1000, 200>>

ChunkCases ==
    {<<t, p[1], p[2]>> : t \in ChunkTexts, p \in ChunkParams}
    \cup {ExampleCase}

InitChunk ==
    /\ \E c \in ChunkCases :
          ctText = c[1] /\ ctSize = c[2] /\ ctOverlap = c[3]
    /\ ctChunks = <<>>
    /\ ctDone = FALSE
    /\ ctStart = 0
    /\ ctPhase = "idle"
    /\ tree = <<>>
    /\ config = [SkipExistingDocuments |-> TRUE, ChunkSize |-> ctSize,
                 ChunkOverlap |-> ctOverlap, Dimension |-> 2,
                 VisionClient |-> FALSE]
    /\ store = <<>> /\ nextUUID = 0 /\ pc = "idle" /\ run = 0
    /\ files = <<>> /\ idx = 1 /\ counters = ZeroCounters
    /\ result = [returned |-> FALSE, err |-> NoErr]
    /\ trace = <<>> /\ prevTrace = <<>> /\ store0 = <<>> /\ faults = 0
    /\ scanErr = NoErr
    /\ cancelled = FALSE
    /\ hashResp = NoResponse
    /\ UpIdle

\* chunkText is called on the chosen arguments
ChunkTextCall ==
    /\ ~ctDone
    /\ ctChunks' = chunkText(ctText, ctSize, ctOverlap)
    /\ ctDone' = TRUE
    /\ UNCHANGED <<ctText, ctSize, ctOverlap, ctStart, ctPhase>>
    /\ UNCHANGED <<pipeVars, upVars, hashVars>>

NextChunk == ChunkTextCall

SpecChunk == InitChunk /\ [][NextChunk]_vars

(* ------------------------ hashing specification ------------------------ *)

\* the compute-hash handler of the document-scanner, asked for a file
\* below the root: 200 with the path and utils.ComputeFileHash's result,
\* 500 with the error text when the file cannot be read
computeHash ==
    /\ \E k \in 1..Len(tree), readOK \in BOOLEAN :
          LET r == ComputeFileHash(tree[k], readOK)
          IN  hashResp' = IF r.err # NoErr
                          THEN [status |-> 500, file_path |-> <<>>,
                                hash |-> <<>>, error |-> r.err]
                          ELSE [status |-> 200, file_path |-> PathOf(tree[k]),
                                hash |-> r.hash, error |-> <<>>]
    /\ UNCHANGED <<pipeVars, ctVars, upVars>>

\* the configurations of the hashing specification: the largest chunk
\* size without overlap, no vision client
HashConfigs == {c \in TreeConfigs : ~c.VisionClient}

InitHash == InitWith(Trees, HashConfigs)

NextHash == StartRun \/ ProcessNextFile \/ FinishRun \/ computeHash

\* one start of the orchestrator, with the document-scanner answering
\* compute-hash requests for the same files at any time
SpecHash == InitHash /\ [][NextHash]_vars

(* ---------------------- chunk-loop specification ----------------------- *)

\* validate with chunk_overlap = chunk_size let through
validateLax(c) ==
    IF c.ChunkSize <= 0
    THEN <<"chunk_size must be positive">>
    ELSE IF c.ChunkOverlap < 0
    THEN <<"chunk_overlap cannot be negative">>
    ELSE IF c.ChunkOverlap > c.ChunkSize
    THEN <<"chunk_overlap must be less than chunk_size">>
    ELSE IF c.Dimension <= 0
    THEN <<"pinecone dimension must be positive">>
    ELSE NoErr

\* validate: the numeric constraints on a loaded configuration
validate(c) ==
    IF c.ChunkSize <= 0
    THEN <<"chunk_size must be positive">>
    ELSE IF c.ChunkOverlap < 0
    THEN <<"chunk_overlap cannot be negative">>
    ELSE IF c.ChunkOverlap >= c.ChunkSize
    THEN <<"chunk_overlap must be less than chunk_size">>
    ELSE IF c.Dimension <= 0
    THEN <<"pinecone dimension must be positive">>
    ELSE NoErr

\* the chunk_size and chunk_overlap values a configuration file or the
\* environment can hold: negative, zero, and up to MaxWindow
RawSettings == (-1..MaxWindow) \X (-1..MaxWindow)

InitLoop ==
    /\ ctText \in {Text(L) : L \in 0..MaxTextLen}
    /\ \E p \in RawSettings : ctSize = p[1] /\ ctOverlap = p[2]
    /\ ctChunks = <<>>
    /\ ctDone = FALSE
    /\ ctStart = 0
    /\ ctPhase = "config"
    /\ tree = <<>>
    /\ config = [SkipExistingDocuments |-> TRUE, ChunkSize |-> ctSize,
                 ChunkOverlap |-> ctOverlap, Dimension |-> 2,
                 VisionClient |-> FALSE]
    /\ store = <<>> /\ nextUUID = 0 /\ pc = "idle" /\ run = 0
    /\ files = <<>> /\ idx = 1 /\ counters = ZeroCounters
    /\ result = [returned |-> FALSE, err |-> NoErr]
    /\ trace = <<>> /\ prevTrace = <<>> /\ store0 = <<>> /\ faults = 0
    /\ scanErr = NoErr
    /\ cancelled = FALSE
    /\ hashResp = NoResponse
    /\ UpIdle

\* config.Load: the configuration is validated; a rejected one makes the
\* service exit before any file is processed
LoadConfig ==
    /\ ctPhase = "config"
    /\ ctPhase' = IF validate(config) # NoErr THEN "rejected" ELSE "ready"
    /\ UNCHANGED <<ctText, ctSize, ctOverlap, ctChunks, ctDone, ctStart>>
    /\ UNCHANGED <<pipeVars, upVars, hashVars>>

\* chunkText is entered: a text of at most chunkSize bytes is returned
\* whole, otherwise the loop starts at 0
EnterChunkText ==
    /\ ctPhase = "ready"
    /\ IF Len(ctText) <= config.ChunkSize
       THEN /\ ctChunks' = <<ctText>>
            /\ ctPhase' = "returned"
            /\ ctDone' = TRUE
       ELSE /\ ctChunks' = <<>>
            /\ ctPhase' = "loop"
            /\ ctDone' = FALSE
    /\ ctStart' = 0
    /\ UNCHANGED <<ctText, ctSize, ctOverlap>>
    /\ UNCHANGED <<pipeVars, upVars, hashVars>>

\* one evaluation of the loop condition of chunkText and, when it holds,
\* one pass through the body; the slice is followed up to MaxTextLen + 1
\* chunks
LoopStep ==
    /\ ctPhase = "loop"
    /\ IF ctStart < Len(ctText)
       THEN /\ Len(ctChunks) <= MaxTextLen
            /\ LET end == IF ctStart + config.ChunkSize > Len(ctText)
                          THEN Len(ctText)
                          ELSE ctStart + config.ChunkSize
               IN  ctChunks' = Append(ctChunks,
                                      SubSeq(ctText, ctStart + 1, end))
            /\ ctStart' = ctStart + config.ChunkSize - config.ChunkOverlap
            /\ UNCHANGED <<ctPhase, ctDone>>
       ELSE /\ ctPhase' = "returned"
            /\ ctDone' = TRUE
            /\ UNCHANGED <<ctChunks, ctStart>>
    /\ UNCHANGED <<ctText, ctSize, ctOverlap>>
    /\ UNCHANGED <<pipeVars, upVars, hashVars>>

NextLoop == LoadConfig \/ EnterChunkText \/ LoopStep

\* configuration loading followed by one chunkText call, statement by
\* statement; the goroutine that runs them is not held up by anything
SpecLoop == InitLoop /\ [][NextLoop]_vars /\ WF_vars(NextLoop)

(* ------------------------ claims on the pipeline ------------------------ *)

\* the positions of the calls to fn in a call list
CallsTo(calls, fn) == {j \in 1..Len(calls) : calls[j].fn = fn}

\* the files handed to processFile in this run, in order
Handed == [k \in 1..Len(trace) |-> trace[k].file]

\* the current run has returned after a successful scan
RunDone == pc = "done" /\ run > 0 /\ scanErr = NoErr

\* no collaborator call of the k-th file of a trace failed
Clean(tr, k) == FailedCalls(tr[k].calls) = 0

\* C1: once the scan has succeeded no file ends the run: every discovered
\* file is handed to processFile exactly once, whatever happened to the
\* files before it, and ProcessDirectory returns nil; it returns an error
\* only when the scan itself fails.
C1_RunIsolation ==
    /\ pc # "crashed"
    /\ (pc = "loop" => Handed = SubSeq(files, 1, idx - 1))
    /\ (RunDone => Handed = files /\ result = [returned |-> TRUE, err |-> NoErr])
    /\ ((result.returned /\ result.err # NoErr) => scanErr # NoErr)

\* C1 witness: a run that returned nil although its first file failed, the
\* second file having been processed after it
C1_Witness ==
    /\ RunDone
    /\ Len(files) >= 2
    /\ ClassOf(trace[1].err) = "errored"
    /\ trace[2].err = NoErr
    /\ result.err = NoErr

\* C2 (as stated): with dedup-skip enabled, a directory of two files with
\* byte-identical content, an index that holds nothing of that content and
\* no failing collaborator call, the run ends with processed = 1,
\* skipped = 1, errored = 0 and the index holds vectors of the first file
\* only.
C2_DuplicateSkippedAnyContent ==
    (/\ RunDone
     /\ config.SkipExistingDocuments
     /\ Len(files) = 2
     /\ files[1].bytes = files[2].bytes
     /\ MatchingIds(store0, calculateFileHash(files[1], TRUE).hash) = {}
     /\ Clean(trace, 1) /\ Clean(trace, 2))
    => /\ trace[1].calls[1].ret = trace[2].calls[1].ret
       /\ counters = [successCount |-> 1, skipCount |-> 1, errorCount |-> 0]
       /\ \A id \in DOMAIN store \ DOMAIN store0 :
              store[id].metadata.file_path = PathOf(files[1])

\* C2 (amended): the same, for two files whose identical content is not
\* empty.
C2_DuplicateSkipped ==
    (/\ RunDone
     /\ config.SkipExistingDocuments
     /\ Len(files) = 2
     /\ files[1].bytes = files[2].bytes
     /\ files[1].bytes # <<>>
     /\ MatchingIds(store0, calculateFileHash(files[1], TRUE).hash) = {}
     /\ Clean(trace, 1) /\ Clean(trace, 2))
    => /\ trace[1].calls[1].ret = trace[2].calls[1].ret
       /\ counters = [successCount |-> 1, skipCount |-> 1, errorCount |-> 0]
       /\ DOMAIN store # DOMAIN store0
       /\ \A id \in DOMAIN store \ DOMAIN store0 :
              store[id].metadata.file_path = PathOf(files[1])

\* C2 witness: such a run has ended, with vectors of the first file written
C2_Witness ==
    /\ RunDone
    /\ config.SkipExistingDocuments
    /\ Len(files) = 2
    /\ files[1].bytes = files[2].bytes
    /\ files[1].bytes # <<>>
    /\ store0 = <<>>
    /\ Clean(trace, 1) /\ Clean(trace, 2)
    /\ counters.skipCount = 1
    /\ store # <<>>

\* the k-th file of the previous run was stored: UpsertVectors succeeded
WasStored(k) ==
    \E j \in CallsTo(prevTrace[k].calls, "UpsertVectors") :
        prevTrace[k].calls[j].ok

\* the second of two runs over an unchanged directory has returned, both
\* scans having succeeded
SecondRunDone ==
    /\ RunDone
    /\ run >= 2
    /\ config.SkipExistingDocuments
    /\ Len(prevTrace) = Len(files)

\* C3 (as stated): a file processed without any failing call in two
\* consecutive runs with dedup-skip enabled is skipped in the second run,
\* which calls UpsertVectors for it no more and, when it is the only file,
\* ends with skip count 1 and the index unchanged.
C3_SecondRunSkipsAnyFile ==
    SecondRunDone =>
        /\ \A k \in 1..Len(files) :
              (Clean(prevTrace, k) /\ Clean(trace, k)) =>
                  /\ ClassOf(trace[k].err) = "skipped"
                  /\ CallsTo(trace[k].calls, "UpsertVectors") = {}
        /\ (Len(files) = 1 /\ Clean(prevTrace, 1) /\ Clean(trace, 1)) =>
               counters.skipCount = 1 /\ store = store0

\* C3 (amended): a file for which the first run stored vectors is skipped
\* in the second run, provided the hash and the existence query of the
\* second run succeed; UpsertVectors is not called for it and, when it is
\* the only file, the skip count is 1 and the index is unchanged.
C3_SecondRunSkips ==
    SecondRunDone =>
        /\ \A k \in 1..Len(files) :
              (WasStored(k) /\ Clean(trace, k)) =>
                  /\ ClassOf(trace[k].err) = "skipped"
                  /\ CallsTo(trace[k].calls, "UpsertVectors") = {}
        /\ (Len(files) = 1 /\ WasStored(1) /\ Clean(trace, 1)) =>
               counters.skipCount = 1 /\ store = store0

\* C3 witness: a single file was stored by the first run and the second
\* run has returned
C3_Witness ==
    /\ SecondRunDone
    /\ Len(files) = 1
    /\ WasStored(1)
    /\ Clean(trace, 1)
    /\ store # <<>>

\* the existence check of a processFile call answered true
ExistsTrue(calls) ==
    \E j \in CallsTo(calls, "CheckDocumentExists") : calls[j].ret.exists

\* C4: when dedup-skip is enabled and the existence check answers true,
\* the file raises the skip counter and no other counter, no extractor,
\* visual analyzer, summarizer, embedder or upsert call is made for it,
\* and the index is left as it was.
C4_SkipIsFrame ==
    [][(Len(trace') = Len(trace) + 1
        /\ ExistsTrue(trace'[Len(trace')].calls))
       => /\ counters' = [counters EXCEPT !.skipCount = @ + 1]
          /\ store' = store
          /\ nextUUID' = nextUUID
          /\ \A j \in 1..Len(trace'[Len(trace')].calls) :
                 trace'[Len(trace')].calls[j].fn
                     \in {"calculateFileHash", "CheckDocumentExists"}]_vars

\* C4 witness: a file was skipped because the index already held its hash
C4_Witness ==
    /\ config.SkipExistingDocuments
    /\ Len(trace) >= 1
    /\ ExistsTrue(trace[Len(trace)].calls)
    /\ counters.skipCount >= 1
    /\ store # <<>>

\* the extension of a file is accepted by some processor
Supported(f) ==
    \E k \in 1..Len(Processors) : CanProcess(Processors[k], Ext(f.name))

\* C5: when the existence query fails, CheckDocumentExists answers
\* (false, nil), the file is not skipped, processFile goes on to
\* extraction, and the file is not counted as errored when nothing else
\* fails.
C5_QueryFailureReprocesses ==
    \A k \in 1..Len(trace) :
        \A j \in CallsTo(trace[k].calls, "CheckDocumentExists") :
            ~trace[k].calls[j].ok =>
                /\ trace[k].calls[j].ret = [exists |-> FALSE, err |-> NoErr]
                /\ ClassOf(trace[k].err) # "skipped"
                /\ Supported(trace[k].file) =>
                       /\ Len(trace[k].calls) > j
                       /\ trace[k].calls[j + 1].fn = "Extract"
                /\ (Supported(trace[k].file)
                    /\ FailedCalls(trace[k].calls) = 1) =>
                       trace[k].err = NoErr

\* C5 witness: the existence query failed for a file whose content was
\* already in the index, and the file was indexed a second time
C5_Witness ==
    \E k \in 1..Len(trace) :
        /\ \E j \in CallsTo(trace[k].calls, "CheckDocumentExists") :
               ~trace[k].calls[j].ok
        /\ CallsTo(trace[k].calls, "UpsertVectors") # {}
        /\ trace[k].err = NoErr
        /\ Cardinality({store[id].metadata.document_id :
                           id \in MatchingIds(store,
                               calculateFileHash(trace[k].file, TRUE).hash)})
               = 2

\* the increasing sequence of the members of S below n
RECURSIVE Ascending(_, _, _)
Ascending(S, i, n) ==
    IF i >= n THEN <<>>
    ELSE IF i \in S THEN <<i>> \o Ascending(S, i + 1, n)
    ELSE Ascending(S, i + 1, n)

\* C9: for a file cut into n chunks, of which those in F fail to embed,
\* GenerateEmbedding is called for chunk 0, 1, ..., n-1 all the same; when
\* F is not all chunks, UpsertVectors is called once with exactly the
\* vectors of the other chunks, in chunk order, and the file is counted as
\* processed if that call succeeds; when F is all chunks, UpsertVectors is
\* not called and the file is counted as processed.
C9_EmbeddingIsolation ==
    \A k \in 1..Len(trace) :
        \A j \in CallsTo(trace[k].calls, "GenerateSummary") :
            LET calls  == trace[k].calls
                chunks == chunkText(calls[j].arg, config.ChunkSize,
                                    config.ChunkOverlap)
                n      == Len(chunks)
                good   == {i \in 0..(n - 1) : calls[j + 1 + i].ok}
                order  == Ascending(good, 0, n)
            IN  /\ Len(calls) >= j + n
                /\ \A i \in 0..(n - 1) :
                       /\ calls[j + 1 + i].fn = "GenerateEmbedding"
                       /\ calls[j + 1 + i].arg = i
                       /\ calls[j + 1 + i].ret = chunks[i + 1]
                /\ IF good = {}
                   THEN /\ Len(calls) = j + n
                        /\ trace[k].err = NoErr
                   ELSE /\ Len(calls) = j + n + 1
                        /\ calls[j + n + 1].fn = "UpsertVectors"
                        /\ Len(calls[j + n + 1].arg) = Len(order)
                        /\ \A v \in 1..Len(order) :
                               LET m == calls[j + n + 1].arg[v].metadata
                               IN  /\ m.chunk_index = order[v]
                                   /\ m.content = chunks[order[v] + 1]
                        /\ calls[j + n + 1].ok => trace[k].err = NoErr

\* C9 witness: the embedding of chunk 1 of 3 failed, the vectors of chunks
\* 0 and 2 were upserted and are in the index, the file was processed
C9_Witness ==
    \E k \in 1..Len(trace) :
        \E j \in CallsTo(trace[k].calls, "GenerateSummary") :
            LET calls == trace[k].calls
            IN  /\ Len(calls) = j + 4
                /\ calls[j + 1].ok /\ ~calls[j + 2].ok /\ calls[j + 3].ok
                /\ calls[j + 4].fn = "UpsertVectors"
                /\ Len(calls[j + 4].arg) = 2
                /\ Cardinality(DOMAIN store) = 2
                /\ trace[k].err = NoErr

\* C10: a file whose extractor returns empty text ends processFile with a
\* nil error right there: no later call is made for it, nothing of it is
\* written, and the run counts it as processed.
C10_EmptyContent ==
    /\ \A k \in 1..Len(trace) :
           \A j \in CallsTo(trace[k].calls, "Extract") :
               (trace[k].calls[j].ok /\ trace[k].calls[j].ret = <<>>) =>
                   /\ Len(trace[k].calls) = j
                   /\ trace[k].err = NoErr
                   /\ ClassOf(trace[k].err) = "processed"
    /\ counters.successCount
           = Cardinality({k \in 1..Len(trace) : trace[k].err = NoErr})
    /\ \A id \in DOMAIN store : store[id].metadata.content # <<>>

\* C10 witness: an empty file was extracted and counted as processed
C10_Witness ==
    \E k \in 1..Len(trace) :
        /\ trace[k].file.bytes = <<>>
        /\ \E j \in CallsTo(trace[k].calls, "Extract") : trace[k].calls[j].ok
        /\ trace[k].err = NoErr
        /\ counters.successCount >= 1

(* ------------------------ claims on chunkText --------------------------- *)

\* C6: for every text length L, chunk size S and overlap O < S, chunkText
\* returns 1 chunk if L <= S and ceil((L - O) / (S - O)) chunks otherwise
\* (3 chunks for L = 2500, S = 1000, O = 200).
C6_ChunkCount ==
    ctDone =>
        Len(ctChunks) =
            IF Len(ctText) <= ctSize
            THEN 1
            ELSE CeilDiv(Len(ctText) - ctOverlap, ctSize - ctOverlap)

\* C7: the chunks are the windows text[i*(S-O) .. min(i*(S-O)+S, L)) for
\* i = 0, 1, ... in order; every position of [0, L) lies in some window;
\* when L <= S the single chunk is the whole text.
C7_Windows ==
    ctDone =>
        LET L      == Len(ctText)
            stride == ctSize - ctOverlap
            lo(i)  == (i - 1) * stride
            hi(i)  == Min((i - 1) * stride + ctSize, L)
        IN  /\ \A i \in 1..Len(ctChunks) :
                  ctChunks[i] = SubSeq(ctText, lo(i) + 1, hi(i))
            /\ \A p \in 1..L :
                  \E i \in 1..Len(ctChunks) : lo(i) < p /\ p <= hi(i)
            /\ (L <= ctSize => ctChunks = <<ctText>>)

\* C7 witness: a text longer than the chunk size was split with a positive
\* overlap into at least three windows
C7_Witness ==
    /\ ctDone
    /\ Len(ctText) > ctSize
    /\ ctOverlap > 0
    /\ Len(ctChunks) >= 3

\* C8: when len(text) > chunkSize, every two consecutive chunks, the last
\* pair included, overlap by exactly `overlap` characters: the last
\* `overlap` characters of chunk i are the first `overlap` of chunk i+1.
C8_ExactOverlap ==
    (ctDone /\ Len(ctText) > ctSize) =>
        \A i \in 1..(Len(ctChunks) - 1) :
            /\ Len(ctChunks[i]) >= ctOverlap
            /\ Len(ctChunks[i + 1]) >= ctOverlap
            /\ SubSeq(ctChunks[i], Len(ctChunks[i]) - ctOverlap + 1,
                      Len(ctChunks[i]))
               = SubSeq(ctChunks[i + 1], 1, ctOverlap)

(* --------------------- claims on files that fail ------------------------ *)

\* C11: a file whose hash cannot be computed has no collaborator called
\* for it, nothing of it is written, and it is counted as errored; the run
\* goes on to the files after it.
C11_ReadFailureErrored ==
    /\ \A k \in 1..Len(trace) :
           ~trace[k].calls[1].ok =>
               /\ Len(trace[k].calls) = 1
               /\ ClassOf(trace[k].err) = "errored"
    /\ (RunDone => Handed = files)

\* the index of the first processor that accepts the extension, 0 if none
FirstAble(ext) ==
    IF \E k \in 1..Len(Processors) : CanProcess(Processors[k], ext)
    THEN CHOOSE k \in 1..Len(Processors) :
             /\ CanProcess(Processors[k], ext)
             /\ \A m \in 1..(k - 1) : ~CanProcess(Processors[m], ext)
    ELSE 0

\* processFile came as far as extractContent for the k-th file of the run
ReachedExtract(k) ==
    /\ trace[k].calls[1].ok
    /\ ~ExistsTrue(trace[k].calls)

\* C12: Extract is called on the first registered processor that accepts
\* the extension and on no other; a file no processor accepts, whatever
\* its extension, has no Extract called and is counted as errored, and the
\* run goes on.
C12_UnsupportedErrored ==
    /\ \A k \in 1..Len(trace) :
           LET f == trace[k].file
               X == CallsTo(trace[k].calls, "Extract")
           IN  /\ Cardinality(X) <= 1
               /\ \A j \in X :
                      /\ FirstAble(Ext(f.name)) # 0
                      /\ trace[k].calls[j].arg
                             = Processors[FirstAble(Ext(f.name))]
               /\ (ReachedExtract(k) /\ FirstAble(Ext(f.name)) = 0) =>
                      /\ X = {}
                      /\ ClassOf(trace[k].err) = "errored"
    /\ (RunDone => Handed = files)

(* ---------------------- claims on scanDirectory ------------------------- *)

\* C13: the scan fails only when the root directory cannot be opened; an
\* unreadable entry below the root does not make ProcessDirectory return an
\* error.
C13_ScanFailsOnlyForRoot ==
    (run > 0 /\ scanErr # NoErr) => scanErr = scanDirectory(tree, 1).err

\* C14: no path returned by scanDirectory is a directory, and none has a
\* component below the root, its own name or that of an enclosing
\* directory, that begins with '.'.
C14_NoHiddenComponent ==
    \A k \in 1..Len(files) :
        /\ ~files[k].isDir
        /\ ~HasDotPrefix(files[k].name)
        /\ \A d \in 1..Len(files[k].dir) : ~HasDotPrefix(files[k].dir[d])

(* ------------------------ claims on cancellation ------------------------ *)

\* C15: once the context is done no file is handed to processFile any
\* more, so none is hashed and the processed counter stays as it is; the
\* vectors in the index stay there.
C15_NoLaunchAfterCancel ==
    [][cancelled =>
          /\ trace' = trace
          /\ counters'.successCount = counters.successCount
          /\ \A id \in DOMAIN store :
                 id \in DOMAIN store' /\ store'[id] = store[id]]_vars

(* --------------------------- claims on storage -------------------------- *)

\* the vectors of the batches before batch b
Before(vectors, b) ==
    SubSeq(vectors, 1, Min((b - 1) * BatchSize, Len(vectors)))

C17_SameIdsOnReprocess ==
    (/\ RunDone
     /\ run >= 2
     /\ ~config.SkipExistingDocuments
     /\ Len(prevTrace) = Len(files)
     /\ \A k \in 1..Len(files) : Clean(prevTrace, k) /\ Clean(trace, k))
    => DOMAIN store = DOMAIN store0

RECURSIVE Flatten(_)
\* the concatenation of a sequence of sequences
Flatten(ss) == IF ss = <<>> THEN <<>> ELSE Head(ss) \o Flatten(Tail(ss))

\* C22: UpsertVectors on n vectors writes consecutive slices of its input
\* in input order, each of at most BatchSize vectors and each but the last
\* of exactly BatchSize; when no batch fails it makes ceil(n / BatchSize)
\* writes whose concatenation is the input and returns nil; when batch b
\* fails it returns an error, having written the b - 1 batches before it,
\* which stay in the index, and none after it; for n = 0 it makes no write
\* and returns nil.
C22_Batching ==
    /\ UpsertVectors(upStore, <<>>, upFail)
           = [store |-> upStore, written |-> <<>>, err |-> NoErr]
    /\ upDone =>
        LET n     == Len(upVectors)
            nb    == CeilDiv(n, BatchSize)
            fails == upFail \in 1..nb
            w     == upResult.written
        IN  /\ Len(w) = IF fails THEN upFail - 1 ELSE nb
            /\ \A b \in 1..Len(w) :
                   /\ w[b] = SubSeq(upVectors, (b - 1) * BatchSize + 1,
                                    Min(b * BatchSize, n))
                   /\ Len(w[b]) >= 1
                   /\ Len(w[b]) <= BatchSize
                   /\ b < nb => Len(w[b]) = BatchSize
            /\ ~fails => /\ upResult.err = NoErr
                         /\ Flatten(w) = upVectors
            /\ fails => /\ upResult.err # NoErr
                        /\ \A b \in 1..Len(w) : \A k \in 1..Len(w[b]) :
                               /\ w[b][k].id \in DOMAIN upResult.store
                               /\ upResult.store[w[b][k].id] = w[b][k]
                        /\ \A k \in ((upFail - 1) * BatchSize + 1)..n :
                               upVectors[k].id \in DOMAIN upResult.store
                                   => /\ upVectors[k].id \in DOMAIN upStore
                                      /\ upResult.store[upVectors[k].id]
                                             = upStore[upVectors[k].id]

\* C22 witness: a call on more than two full batches succeeded with three
\* writes, the last of a single vector
C22_Witness ==
    /\ upDone
    /\ Len(upVectors) = 2 * BatchSize + 1
    /\ upResult.err = NoErr
    /\ Len(upResult.written) = 3
    /\ Len(upResult.written[3]) = 1
    /\ Cardinality(DOMAIN upResult.store) >= 2 * BatchSize + 1

(* ------------------- claims on summary and vision ----------------------- *)

\* processFile panicked on the k-th file of the run
Panicked(k) == trace[k].err = Panic(<<>>, <<>>).err

\* the text a call list shows for fn: what its only call returned, or the
\* empty text when it was not called
TextFrom(calls, fn) ==
    IF CallsTo(calls, fn) = {}
    THEN <<>>
    ELSE calls[CHOOSE j \in CallsTo(calls, fn) : TRUE].ret

\* C18: GenerateSummary is called once for a file whose extraction gave
\* text, and not otherwise, on the extracted text followed by the visual
\* description if there is one; when it fails, the placeholder is the
\* summary of every vector of the file, one embedding is requested per
\* chunk all the same, and the file is counted as processed unless the
\* upsert fails.
C18_SummaryFallback ==
    \A k \in 1..Len(trace) :
        LET calls == trace[k].calls
            S     == CallsTo(calls, "GenerateSummary")
            U     == CallsTo(calls, "UpsertVectors")
            text  == TextFrom(calls, "Extract")
        IN  /\ Cardinality(S) <= 1
            /\ (S # {}) <=> (text # <<>> /\ ~Panicked(k))
            /\ \A j \in S :
                   /\ calls[j].arg
                          = combine(text, TextFrom(calls, "AnalyzeImage"))
                   /\ ~calls[j].ok =>
                          /\ calls[j].ret = "Summary generation failed"
                          /\ Cardinality(CallsTo(calls, "GenerateEmbedding"))
                                 = Len(chunkText(calls[j].arg,
                                                 config.ChunkSize,
                                                 config.ChunkOverlap))
                          /\ \A u \in U :
                                 \A v \in 1..Len(calls[u].arg) :
                                     calls[u].arg[v].metadata.summary
                                         = "Summary generation failed"
                          /\ (\A u \in U : calls[u].ok) =>
                                 trace[k].err = NoErr

\* C18 witness: the summary of a vector image with a visual description
\* failed; its vectors are in the index with the placeholder and the file
\* is counted as processed
C18_Witness ==
    \E k \in 1..Len(trace) :
        LET calls == trace[k].calls
        IN  /\ \E j \in CallsTo(calls, "GenerateSummary") : ~calls[j].ok
            /\ TextFrom(calls, "AnalyzeImage") = SvgDescription
            /\ trace[k].err = NoErr
            /\ counters.successCount >= 1
            /\ \E id \in DOMAIN store :
                   /\ store[id].metadata.file_path = PathOf(trace[k].file)
                   /\ store[id].metadata.summary = "Summary generation failed"

\* C19: AnalyzeImage is called only for image files and only when a vision
\* client is configured; when the call does not succeed the run goes on:
\* GenerateSummary is called next, on the extracted text alone.
C19_VisionBestEffort ==
    /\ pc # "crashed"
    /\ \A k \in 1..Len(trace) :
           LET calls == trace[k].calls
           IN  \A j \in CallsTo(calls, "AnalyzeImage") :
                   /\ isImageFile(trace[k].file)
                   /\ config.VisionClient
                   /\ ~calls[j].ok =>
                          /\ Len(calls) > j
                          /\ calls[j + 1].fn = "GenerateSummary"
                          /\ calls[j + 1].arg = TextFrom(calls, "Extract")

\* C20: every vector handed to UpsertVectors, and so every vector in the
\* index, has as many values as the configured dimension.
C20_DimensionKept ==
    /\ \A id \in DOMAIN store : Len(store[id].values) = config.Dimension
    /\ \A k \in 1..Len(trace) :
           \A u \in CallsTo(trace[k].calls, "UpsertVectors") :
               \A v \in 1..Len(trace[k].calls[u].arg) :
                   Len(trace[k].calls[u].arg[v].values) = config.Dimension

(* ---------------------- claims on the stage order ----------------------- *)

\* the place of a collaborator call in the pipeline of one file
StageRank(fn) ==
    CASE fn = "calculateFileHash"   -> 1
      [] fn = "CheckDocumentExists" -> 2
      [] fn = "Extract"             -> 3
      [] fn = "AnalyzeImage"        -> 4
      [] fn = "GenerateSummary"     -> 5
      [] fn = "GenerateEmbedding"   -> 6
      [] fn = "UpsertVectors"       -> 7
      [] OTHER                      -> 0

\* C21: the calls processFile makes for one file come in the order hash,
\* existence check (made exactly when dedup-skip is enabled and the hash
\* was computed), extract, visual analysis, summary, embedding of chunk
\* 0, 1, ..., n-1, upsert; every stage but the embedding is entered at most
\* once, and UpsertVectors is called at most once, after the last
\* embedding.
C21_StageOrder ==
    \A k \in 1..Len(trace) :
        LET calls == trace[k].calls
            E     == CallsTo(calls, "GenerateEmbedding")
        IN  /\ Len(calls) >= 1
            /\ calls[1].fn = "calculateFileHash"
            /\ \A j \in 1..(Len(calls) - 1) :
                   /\ StageRank(calls[j].fn) <= StageRank(calls[j + 1].fn)
                   /\ StageRank(calls[j].fn) = StageRank(calls[j + 1].fn)
                          => calls[j].fn = "GenerateEmbedding"
            /\ (CallsTo(calls, "CheckDocumentExists") # {})
                   <=> (config.SkipExistingDocuments /\ calls[1].ok)
            /\ \A j \in E :
                   calls[j].arg = Cardinality({m \in E : m < j})
            /\ Cardinality(CallsTo(calls, "UpsertVectors")) <= 1
            /\ \A u \in CallsTo(calls, "UpsertVectors") :
                   /\ u = Len(calls)
                   /\ E # {}
                   /\ \A j \in E : j < u

\* C21 witness: a file went through every stage: hash, existence check,
\* extraction, visual analysis, summary, two embeddings, one upsert
C21_Witness ==
    \E k \in 1..Len(trace) :
        LET calls == trace[k].calls
        IN  /\ Len(calls) = 8
            /\ [j \in 1..8 |-> calls[j].fn]
                   = <<"calculateFileHash", "CheckDocumentExists", "Extract",
                       "AnalyzeImage", "GenerateSummary", "GenerateEmbedding",
                       "GenerateEmbedding", "UpsertVectors">>
            /\ \A j \in 1..8 : calls[j].ok
            /\ trace[k].err = NoErr

(* --------------------- claims on vector metadata ------------------------ *)

\* C23: the vectors processFile hands to UpsertVectors for one file all
\* carry the same document_id, the file's hash, the file's summary and as
\* chunk_total the number of chunks chunkText cut, also when chunks were
\* dropped; each identifier is document_id, "-chunk-", chunk_index; the
\* chunk_index rises strictly along the list and lies in
\* 0 .. chunk_total - 1, so the identifiers differ pairwise.
C23_VectorMetadata ==
    \A k \in 1..Len(trace) :
        \A u \in CallsTo(trace[k].calls, "UpsertVectors") :
            LET calls == trace[k].calls
                vs    == calls[u].arg
                s     == CHOOSE j \in CallsTo(calls, "GenerateSummary") : TRUE
                total == Len(chunkText(calls[s].arg, config.ChunkSize,
                                       config.ChunkOverlap))
            IN  /\ Len(vs) >= 1
                /\ \A v \in 1..Len(vs) :
                       LET m == vs[v].metadata
                       IN  /\ m.document_id = vs[1].metadata.document_id
                           /\ m.file_hash = calls[1].ret
                           /\ m.summary = calls[s].ret
                           /\ m.chunk_total = total
                           /\ m.chunk_index \in 0..(total - 1)
                           /\ vs[v].id
                                  = <<m.document_id, "-chunk-", m.chunk_index>>
                /\ \A v, w \in 1..Len(vs) :
                       v < w => /\ vs[v].metadata.chunk_index
                                       < vs[w].metadata.chunk_index
                                /\ vs[v].id # vs[w].id

\* C23 witness: of a file cut into three chunks the first was dropped; the
\* two vectors upserted and now in the index carry chunk_total 3 and the
\* chunk indexes 1 and 2
C23_Witness ==
    \E k \in 1..Len(trace) :
        \E u \in CallsTo(trace[k].calls, "UpsertVectors") :
            LET vs == trace[k].calls[u].arg
            IN  /\ Len(vs) = 2
                /\ vs[1].metadata.chunk_index = 1
                /\ vs[2].metadata.chunk_index = 2
                /\ vs[1].metadata.chunk_total = 3
                /\ vs[2].metadata.chunk_total = 3
                /\ trace[k].calls[u].ok
                /\ \A v \in 1..2 : vs[v].id \in DOMAIN store

(* ------------------------ claims on the counters ------------------------ *)

\* the sum of the three counters
Total(c) == c.successCount + c.skipCount + c.errorCount

\* the files of the run whose processFile call has returned
Returned == {k \in 1..Len(trace) : ~Panicked(k)}

\* C24: at every point of a run the three counters add up to the number of
\* files whose processFile call has returned, each such file having raised
\* the one counter of its outcome by one; one iteration of the file loop
\* raises exactly one counter by exactly one; when the run has returned
\* the sum is the number of files the scan found.
C24_CounterConservation ==
    /\ Total(counters) = Cardinality(Returned)
    /\ counters.successCount
           = Cardinality({k \in Returned : ClassOf(trace[k].err) = "processed"})
    /\ counters.skipCount
           = Cardinality({k \in Returned : ClassOf(trace[k].err) = "skipped"})
    /\ counters.errorCount
           = Cardinality({k \in Returned : ClassOf(trace[k].err) = "errored"})
    /\ (pc = "loop" => Total(counters) = idx - 1)
    /\ (RunDone => Total(counters) = Len(files))

\* C24 witness: a run over two files has returned with one file processed
\* and one counted as errored
C24_Witness ==
    /\ RunDone
    /\ Len(files) = 2
    /\ counters.successCount = 1
    /\ counters.errorCount = 1
    /\ counters.skipCount = 0

(* ------------------- claims on the skip classification ------------------ *)

\* C25: a file is counted as skipped only when dedup-skip is enabled and
\* the existence check answered true for its hash; a file whose hash,
\* extraction or storage failed, or whose extension no processor accepts,
\* is counted as errored and never as skipped, whatever its path, name or
\* extension.
C25_SkippedOnlyIfIndexed ==
    \A k \in 1..Len(trace) :
        /\ ClassOf(trace[k].err) = "skipped"
               => /\ config.SkipExistingDocuments
                  /\ ExistsTrue(trace[k].calls)
        /\ (trace[k].err # NoErr /\ ~ExistsTrue(trace[k].calls))
               => ClassOf(trace[k].err) = "errored"

(* -------------------- claims on partial indexing ------------------------ *)

\* the first processing of the file failed in a batch after the first
PartlyStored ==
    /\ upDone
    /\ upResult.err # NoErr
    /\ Len(upResult.written) >= 1

\* C26: when the upsert of a file failed after at least one batch had been
\* written, a later run with dedup-skip enabled whose existence check
\* succeeds counts the unchanged file as skipped and leaves the index as it
\* found it; as long as every later run is such a run the index stays as
\* the failed upsert left it, without the vectors of the failed batch and
\* of the batches after it.
C26_PartialNeverCompleted ==
    (/\ PartlyStored
     /\ upLater.ran
     /\ config.SkipExistingDocuments
     /\ upLater.queryOK)
    => /\ upLater.class = "skipped"
       /\ upIndex = upLater.before
       /\ upLater.allOK =>
              /\ upIndex = upResult.store
              /\ \A k \in (Len(upResult.written) * BatchSize + 1)..Len(upVectors) :
                     upVectors[k].id \in DOMAIN upIndex
                         => /\ upVectors[k].id \in DOMAIN upStore
                            /\ upIndex[upVectors[k].id] = upStore[upVectors[k].id]

\* C26 witness: the second batch of a file failed over an empty index, a
\* later run with a successful existence check skipped the file, and the
\* index holds the BatchSize vectors of the first batch only
C26_Witness ==
    /\ PartlyStored
    /\ upFail = 2
    /\ upStore = <<>>
    /\ upLater.ran
    /\ config.SkipExistingDocuments
    /\ upLater.queryOK
    /\ upLater.class = "skipped"
    /\ Len(upVectors) > BatchSize
    /\ Cardinality(DOMAIN upIndex) = BatchSize

(* ------------------ claims on documents per content --------------------- *)

\* the vectors of an index that share a file_hash share their document_id
OnePerHash(st) ==
    \A a, b \in DOMAIN st :
        st[a].metadata.file_hash = st[b].metadata.file_hash
            => st[a].metadata.document_id = st[b].metadata.document_id

\* the step is a processFile call whose existence query failed
QueryFailedInStep ==
    /\ Len(trace') = Len(trace) + 1
    /\ \E j \in CallsTo(trace'[Len(trace')].calls, "CheckDocumentExists") :
           ~trace'[Len(trace')].calls[j].ok

\* C27: with dedup-skip enabled, an index that holds at most one
\* document_id per file_hash still does after every step of every run in
\* which the existence query did not fail, whatever embedding or storage
\* failures there were; the index being empty at first, it holds at most
\* one document_id per file_hash after any sequence of such runs.
C27_OneDocumentPerHash ==
    [][(/\ config.SkipExistingDocuments
        /\ OnePerHash(store)
        /\ ~QueryFailedInStep)
       => OnePerHash(store')]_vars

\* C27 witness: with dedup-skip enabled the upsert of a file failed in one
\* run, the next run processed the file again and stored it, and the index
\* holds one document_id for its hash
C27_Witness ==
    /\ config.SkipExistingDocuments
    /\ run >= 2
    /\ Len(prevTrace) >= 1 /\ Len(trace) >= 1
    /\ prevTrace[1].file = trace[1].file
    /\ \E j \in CallsTo(prevTrace[1].calls, "UpsertVectors") :
           ~prevTrace[1].calls[j].ok
    /\ \E j \in CallsTo(trace[1].calls, "UpsertVectors") :
           trace[1].calls[j].ok
    /\ store # <<>>
    /\ OnePerHash(store)

(* ----------------------- claims on chunk sizes -------------------------- *)

\* C29: for a non-empty text and 0 <= overlap < chunkSize every chunk
\* chunkText returns is non-empty and at most chunkSize long, so
\* GenerateEmbedding, which processFile calls on each chunk of non-empty
\* content, never answers "text cannot be empty".
C29_ChunksNonEmpty ==
    (ctDone /\ ctText # <<>>) =>
        /\ Len(ctChunks) >= 1
        /\ \A i \in 1..Len(ctChunks) :
               /\ ctChunks[i] # <<>>
               /\ Len(ctChunks[i]) <= ctSize
               /\ GenerateEmbedding(ctChunks[i], TRUE, config.Dimension).err
                      = NoErr
               /\ GenerateEmbedding(ctChunks[i], FALSE, config.Dimension).err
                      # <<"text cannot be empty">>

\* C29 witness: a text was cut with overlap into chunks the last of which
\* is shorter than the overlap, and chunkText has returned
C29_Witness ==
    /\ ctDone
    /\ Len(ctText) > ctSize
    /\ ctOverlap >= 2
    /\ Len(ctChunks[Len(ctChunks)]) < ctOverlap
    /\ ctChunks[Len(ctChunks)] # <<>>

(* ----------------------- claims on termination -------------------------- *)

\* C28: every configuration that validate accepts has chunkSize > 0 and
\* 0 <= overlap < chunkSize; with such a configuration each pass through
\* the loop of chunkText moves start forward, and chunkText returns, with
\* the slice the loop built; so every loaded configuration is rejected or
\* its chunking comes to an end.
C28_ChunkingTerminates ==
    /\ [](ctPhase \in {"ready", "loop", "returned"}
              => /\ config.ChunkSize > 0
                 /\ config.ChunkOverlap >= 0
                 /\ config.ChunkOverlap < config.ChunkSize)
    /\ [][(ctPhase = "loop" /\ ctPhase' = "loop") => ctStart' > ctStart]_vars
    /\ [](ctPhase = "returned"
              => ctChunks = chunkText(ctText, config.ChunkSize,
                                      config.ChunkOverlap))
    /\ <>(ctPhase \in {"rejected", "returned"})

\* C28 witness: with a positive overlap the loop has run past the end of
\* the text after at least four passes and chunkText has returned
C28_Witness ==
    /\ ctPhase = "returned"
    /\ config.ChunkOverlap > 0
    /\ Len(ctChunks) >= 4
    /\ ctStart >= Len(ctText)

(* ------------------------ claims on the two hashes ---------------------- *)

\* C30: the hash the compute-hash endpoint answers with for a file is the
\* string calculateFileHash returns for it, which processFile hands to the
\* existence query and stores as file_hash in the metadata of the file's
\* vectors.
C30_HashesAgree ==
    hashResp.status = 200 =>
        /\ \A k \in 1..Len(trace) :
               (PathOf(trace[k].file) = hashResp.file_path
                /\ trace[k].calls[1].ok)
                   => /\ trace[k].calls[1].ret = hashResp.hash
                      /\ \A j \in CallsTo(trace[k].calls,
                                           "CheckDocumentExists") :
                             trace[k].calls[j].arg = hashResp.hash
        /\ \A id \in DOMAIN store :
               store[id].metadata.file_path = hashResp.file_path
                   => store[id].metadata.file_hash = hashResp.hash

====
